---------------------------- MODULE Spec2Model ----------------------------
(***************************************************************************)
(* Model of the kor-kanban hook useProjectTasks                            *)
(* (src/apps/kor-kanban/src/hooks/useProjectTasks.ts), and of the query    *)
(* and the sorted list of the hook useProjects (useProjects.ts).           *)
(*                                                                         *)
(* The hook combines                                                       *)
(*   - a query keyed ['tasks', projectId] (useQuery, lines 24-30) whose    *)
(*     state lives in the query cache, one entry per key;                  *)
(*   - a WebSocket subscription (useWebSocket, lines 32-43) whose filter   *)
(*     decides which messages become lastJsonMessage;                      *)
(*   - a message handler (useMemo, lines 46-58) that invalidates the       *)
(*     query of the active project;                                        *)
(*   - a derivation (useMemo, lines 60-91) from the query data to          *)
(*     tasks / tasksById / tasksByStatus;                                  *)
(*   - the returned result (lines 93-100).                                 *)
(*                                                                         *)
(* The hook passes only queryKey, queryFn and enabled to useQuery, so the  *)
(* query runs with the defaults of @tanstack/react-query: retry 3,         *)
(* staleTime 0, refetch on window focus, invalidateQueries refetching the  *)
(* active query with cancelRefetch.                                        *)
(***************************************************************************)
EXTENDS Integers, Sequences, FiniteSets, TLC

(***************************************************************************)
(* Bounds of the model.                                                    *)
(***************************************************************************)
MaxFetches == 3
    \* fetches (queryFn retry sequences) started in one behaviour
MaxListenerFetches == 2
    \* fetches started in one behaviour of SpecListener
MaxLen == 2
    \* length of a fetched task list in SpecDerive
MaxTs == 2
    \* creation timestamps are 1..MaxTs

(***************************************************************************)
(* Program constants.                                                      *)
(***************************************************************************)
\* useQuery is given no `retry` option: a failed queryFn is retried 3 times
DefaultRetry == 3

\* useWebSocket is given no reconnectAttempts (lines 32-43): the library's
\* default limit of reconnects in a row applies
DefaultReconnectAttempts == 20

-----------------------------------------------------------------------------
(***************************************************************************)
(* Values.                                                                 *)
(***************************************************************************)

\* projectId is a string; "" makes `enabled: !!projectId` false.
ProjectIds == {"", "p1", "p2"}

\* Task ids are strings.  They are represented by numbers whose order is the
\* order of the strings: ids 1 and 2 stand for canonical array-index strings
\* such as "1" and "2" (integer-like property keys), ids 3 and 4 for other
\* strings such as "a" and "b".
TaskIds == {1, 2, 3, 4}

IsArrayIndex(id) == id \in {1, 2}

\* statuses a fetched task may carry; "in_progress" is not a key of byStatus
TaskStatuses == {"todo", "done", "in_progress"}

Timestamps == 1..MaxTs

Tasks == [id : TaskIds, status : TaskStatuses, created_at : Timestamps]

\* merged[task.id] of a record without id: the property key "undefined",
\* which is not an array index and sorts behind the other ids
UndefinedKey == 5

\* records that lack a required field: one without id, one without status
\* (task.status is undefined)
MalformedTasks ==
    { [id |-> UndefinedKey, status |-> "todo", created_at |-> 1],
      [id |-> 3, status |-> "undefined", created_at |-> 1] }

\* every list of n records
TaskLists(n) == [1..n -> Tasks \cup MalformedTasks]

\* the task lists the list endpoint answers with in Spec
Responses ==
    { <<>>,
      << [id |-> 4, status |-> "done", created_at |-> 2],
         [id |-> 3, status |-> "todo", created_at |-> 1] >> }

\* the task list the list endpoint answers with in SpecListener
ListenerResponse == << [id |-> 3, status |-> "todo", created_at |-> 1] >>

\* why tasksApi.list rejects
FetchErrors == {"NetworkError", "ResponseError"}

-----------------------------------------------------------------------------
(***************************************************************************)
(* The derivation (lines 60-91).                                           *)
(***************************************************************************)

\* line 61: (data as TaskWithAttemptStatus[]) || []
TaskListOf(data) == IF data.defined THEN data.list ELSE <<>>

\* new Date(created_at).getTime() of a well-formed timestamp: the instant
GetTime(created_at) == created_at

\* lines 77-79 and 84-86: the comparator handed to sort
CompareCreatedDesc(a, b) == GetTime(b.created_at) - GetTime(a.created_at)

\* a sort that puts x in front of the elements the comparator ties it with
InsertBeforeEqual(sorted, x) ==
    LET before == {i \in 1..Len(sorted) : CompareCreatedDesc(sorted[i], x) < 0}
        k == IF before = {} THEN 0
             ELSE CHOOSE i \in before : \A j \in before : j <= i
    IN  SubSeq(sorted, 1, k) \o <<x>> \o SubSeq(sorted, k + 1, Len(sorted))

\* Array.prototype.sort is stable: x goes behind every element that the
\* comparator does not order after it.
InsertSorted(sorted, x) ==
    LET before == {i \in 1..Len(sorted) : CompareCreatedDesc(sorted[i], x) <= 0}
        k == IF before = {} THEN 0
             ELSE CHOOSE i \in before : \A j \in before : j <= i
    IN  SubSeq(sorted, 1, k) \o <<x>> \o SubSeq(sorted, k + 1, Len(sorted))

RECURSIVE SortCreatedDesc(_)
SortCreatedDesc(list) ==
    IF list = <<>> THEN <<>>
    ELSE InsertSorted(SortCreatedDesc(SubSeq(list, 1, Len(list) - 1)), list[Len(list)])

\* ids of the list in order of first occurrence
RECURSIVE InsertionOrder(_)
InsertionOrder(list) ==
    IF list = <<>> THEN <<>>
    ELSE LET init == InsertionOrder(SubSeq(list, 1, Len(list) - 1))
             id == list[Len(list)].id
         IN  IF \E i \in 1..Len(init) : init[i] = id THEN init ELSE Append(init, id)

RECURSIVE AscendingSeq(_)
AscendingSeq(S) ==
    IF S = {} THEN <<>>
    ELSE LET m == CHOOSE x \in S : \A y \in S : x <= y
         IN  <<m>> \o AscendingSeq(S \ {m})

\* The own property keys of `merged` in the order Object.values walks them:
\* array-index keys ascending, then the other keys in insertion order.
PropertyOrder(list) ==
    LET ins == InsertionOrder(list)
        idx == {ins[i] : i \in {j \in 1..Len(ins) : IsArrayIndex(ins[j])}}
    IN  AscendingSeq(idx) \o SelectSeq(ins, LAMBDA id : ~IsArrayIndex(id))

\* line 72: merged[task.id] = task, for each task of the list in turn
Merged(list) ==
    [id \in {list[i].id : i \in 1..Len(list)} |->
        list[CHOOSE i \in 1..Len(list) :
                /\ list[i].id = id
                /\ \A j \in 1..Len(list) : list[j].id = id => j <= i]]

\* Object.values(merged)
ObjectValues(list) ==
    LET order == PropertyOrder(list)
        merged == Merged(list)
    IN  [i \in 1..Len(order) |-> merged[order[i]]]

\* the list itself sorted, not the values of `merged`
SortedTaskList(list) == SortCreatedDesc(list)

\* lines 76-80
Sorted(list) == SortCreatedDesc(ObjectValues(list))

\* lines 63-69: the keys byStatus is created with
StatusKeys == {"todo", "inprogress", "inreview", "done", "cancelled"}

\* line 73: byStatus[task.status]?.push(task), for each task of the list
Pushed(list, s) == SelectSeq(list, LAMBDA t : t.status = s)

\* the groups as pushed, without the sort of lines 82-88
ByStatusAsPushed(list) == [s \in StatusKeys |-> Pushed(list, s)]

\* lines 63-74 and 82-88
ByStatus(list) == [s \in StatusKeys |-> SortCreatedDesc(Pushed(list, s))]

\* line 90
Derive(data) ==
    LET taskList == TaskListOf(data)
    IN  [tasks |-> Sorted(taskList),
         tasksById |-> Merged(taskList),
         tasksByStatus |-> ByStatus(taskList)]

\* the derivation sorts taskList itself, in place
TaskListSortedInPlace(taskList) == SortCreatedDesc(taskList)

\* taskList after the derivation: lines 71-74 only read it, and the sorts of
\* lines 76-88 run on Object.values(merged) and on the lists of byStatus,
\* arrays the derivation has created
TaskListAfterDerive(taskList) == taskList

\* what an earlier derivation returned, after a later one has run: merged,
\* byStatus and sorted are created anew in every run (lines 62-69, 76)
ReturnedAfterDerive(value) == value

-----------------------------------------------------------------------------
(***************************************************************************)
(* State.                                                                  *)
(***************************************************************************)
VARIABLES
    mounted,          \* the component using the hook is mounted
    projectId,        \* the hook's argument in the latest render
    wsOpen,           \* the WebSocket of useWebSocket is open
    closeCount,       \* close events of the WebSocket since it was last open
                      \* (since the mount, if it never was)
    lastJsonMessage,  \* the last message that passed the filter, parsed
    cache,            \* query cache: the state of query ['tasks', p] for each p
    started,          \* number of fetches started so far; a fetch is known by
                      \* its position in the order of initiation
    inFlight,         \* the fetches whose network call has not settled yet
    memo,             \* { tasks, tasksById, tasksByStatus } of the useMemo of
                      \* lines 60-91, computed from `data` in the latest render
    taskArray,        \* the array `taskList` of the latest derivation, as it
                      \* is after the derivation has run
    returned,         \* { tasks, tasksById, tasksByStatus } returned by the
                      \* derivation before the latest, as they are now
    \* history, read by the properties only:
    triggered,        \* the handler has called invalidateQueries for the
                      \* message lastJsonMessage holds
    latest,           \* per query: the fetch initiated last (0: none), and its
                      \* response once it has arrived
    applied,          \* per query: the fetch whose response was written to
                      \* the cache last (0: none), that response, and the
                      \* list it replaced
    late,             \* per query: the last fetch whose response arrived after
                      \* the response of a fetch initiated later was applied
    outcome,          \* per query: how the last fetch that ran to its end ended
    lastStep,         \* what the last step did: the raw message it received,
                      \* the key it called invalidateQueries with, whether
                      \* it was the passing of 5000 ms, the position of the
                      \* first fetch initiated at or after the notification
                      \* it handled (0: none handled), the fetch it settled
    \* useProjects:
    projectsQuery,    \* the state of the query ['projects']: the array `data`
                      \* as the cache holds it, error, whether a fetch is
                      \* under way and how many of its calls have failed
    projects,         \* `projects` of the useMemo of useProjects, lines 61-67
    projectsFetched   \* history: the list projectsApi.list resolved with last

history == <<latest, applied, late, outcome>>

\* the state of useProjectTasks
tasksVars == <<mounted, projectId, wsOpen, closeCount, lastJsonMessage, cache, started,
               inFlight, memo, taskArray, returned, triggered, latest, applied, late,
               outcome, lastStep>>

\* the state of useProjects
projectsVars == <<projectsQuery, projects, projectsFetched>>

vars == <<tasksVars, projectsVars>>

\* `data` of a query that has never succeeded
Undefined == [defined |-> FALSE, list |-> <<>>]

DataOf(list) == [defined |-> TRUE, list |-> list]

\* no invalidateQueries call
NoCall == "no call"

\* no fetch settled
NoSettle == [kind |-> "none", pid |-> ""]

(***************************************************************************)
(* WebSocket messages (lines 32-43).  A message is its text: not JSON,     *)
(* JSON null, another JSON value without properties, or a JSON object      *)
(* with optional `type`, optional `data` and, in an object `data`,         *)
(* optional `project_id`.                                                  *)
(***************************************************************************)
Absent == "absent"

TaskChangeTypes == {"task_created", "task_updated", "task_deleted"}

MessageTypes == TaskChangeTypes \cup {"project_created", Absent}

Message(json, type, data, pid) ==
    [json |-> json, type |-> type, data |-> data, project_id |-> pid]

NoMessage == Message("none", Absent, Absent, Absent)

\* the messages the socket delivers in SpecListener: text that is not JSON,
\* null, a value without properties; every type for either project; a message
\* without type, without data, without project_id, with an empty project_id
WsMessages ==
    {Message(j, Absent, Absent, Absent) : j \in {"invalid", "null", "scalar"}}
    \cup {Message("object", t, "object", p) :
             t \in MessageTypes \ {Absent}, p \in {"p1", "p2"}}
    \cup {Message("object", Absent, "object", "p1"),
          Message("object", "task_updated", Absent, Absent),
          Message("object", "task_updated", "object", Absent),
          Message("object", "task_updated", "object", "")}

\* the notifications Spec delivers: one that passes the filter per project
RefreshMessages == {Message("object", "task_updated", "object", p) : p \in {"p1", "p2"}}

\* a filter that lets task_deleted messages fall through
FilterWithoutDeleted(m) ==
    IF m.json \in {"invalid", "null"} THEN FALSE
    ELSE m.json = "object" /\ m.type \in {"task_created", "task_updated"}

\* a filter that passes every message that carries a type
FilterAnyType(m) ==
    IF m.json \in {"invalid", "null"} THEN FALSE
    ELSE m.json = "object" /\ m.type # Absent

\* lines 35-42: JSON.parse throws on text that is not JSON, `data.type` throws
\* on null, and is undefined on a value without that property
Filter(m) ==
    IF m.json \in {"invalid", "null"} THEN FALSE
    ELSE m.json = "object" /\ m.type \in TaskChangeTypes

\* a handler that does not compare project_id with projectId
HandlerIgnoresProject(m, pid) ==
    /\ m.json = "object"
    /\ m.type # Absent
    /\ m.data = "object"

\* a handler that takes a message without project_id as one for any project
HandlerMissingIsMatch(m, pid) ==
    /\ m.json = "object"
    /\ m.type # Absent
    /\ m.data = "object"
    /\ m.project_id \in {pid, Absent}

\* lines 47-54: the handler's conditions for calling invalidateQueries
HandlerInvalidates(m, pid) ==
    /\ m.json = "object"
    /\ m.type # Absent
    /\ m.data = "object"
    /\ m.project_id = pid

(***************************************************************************)
(* The query (lines 24-30).                                                *)
(***************************************************************************)

\* a query that is enabled for every projectId
EnabledAlways(pid) == TRUE

\* line 27
Enabled(pid) == pid # ""

\* the observer of the query outlives the unmount
ActiveAfterUnmount(pid) == pid = projectId /\ Enabled(pid)

\* the query ['tasks', pid] has an enabled observer
Active(pid) == mounted /\ pid = projectId /\ Enabled(pid)

\* a fetch: `live` until it is cancelled, failureCount failed attempts so far
NewFetch(seq, pid) == [seq |-> seq, pid |-> pid, live |-> TRUE, failureCount |-> 0]

NotArrived == [arrived |-> FALSE, list |-> <<>>]

\* every call of Query.fetch starts a fetch
StartsFetchAlways(pid, cancelRefetch) == TRUE

\* Query.fetch: a fetch in flight is reused, unless the query already has data
\* and the caller asks to cancel it
StartsFetch(pid, cancelRefetch) ==
    \/ cache[pid].fetch = 0
    \/ cache[pid].data.defined /\ cancelRefetch

\* the fetch in flight is cancelled silently: it will not retry, its network
\* call goes on, its outcome is ignored
Cancelled(pid) ==
    {IF f.pid = pid THEN [f EXCEPT !.live = FALSE, !.failureCount = 0] ELSE f :
        f \in inFlight}

\* starting a fetch empties the query until the response arrives
CacheAfterFetchDropsData(pid) ==
    [cache EXCEPT ![pid].fetch = started + 1, ![pid].error = "none",
                  ![pid].data = Undefined]

\* starting a fetch resets error whether or not the query has data
CacheAfterFetchResetsError(pid) ==
    [cache EXCEPT ![pid].fetch = started + 1, ![pid].error = "none"]

\* starting a fetch keeps data; it resets error only while the query has no data
CacheAfterFetch(pid) ==
    [cache EXCEPT ![pid].fetch = started + 1,
                  ![pid].error = IF cache[pid].data.defined
                                 THEN cache[pid].error ELSE "none"]

QueryFetch(pid, cancelRefetch) ==
    IF StartsFetch(pid, cancelRefetch)
    THEN /\ started < MaxFetches
         /\ started' = started + 1
         /\ inFlight' = Cancelled(pid) \cup {NewFetch(started + 1, pid)}
         /\ cache' = CacheAfterFetch(pid)
         /\ latest' = [latest EXCEPT ![pid] = [seq |-> started + 1, response |-> NotArrived]]
    ELSE UNCHANGED <<started, inFlight, cache, latest>>

\* line 55: invalidateQueries refetches the matching queries that are active
InvalidateQueries(pid) ==
    IF Active(pid) THEN QueryFetch(pid, TRUE)
    ELSE UNCHANGED <<started, inFlight, cache, latest>>

(***************************************************************************)
(* The result (lines 93-100).                                              *)
(***************************************************************************)
IsLoading(q) == ~q.data.defined /\ q.error = "none" /\ q.fetch # 0

\* a result that also offers refresh
ResultWithRefresh ==
    LET q == cache[projectId]
    IN  [tasks |-> memo.tasks,
         tasksById |-> memo.tasksById,
         tasksByStatus |-> memo.tasksByStatus,
         isLoading |-> IsLoading(q),
         isConnected |-> q.error = "none",
         error |-> q.error,
         refresh |-> "refetch"]

Result ==
    LET q == cache[projectId]
    IN  [tasks |-> memo.tasks,
         tasksById |-> memo.tasksById,
         tasksByStatus |-> memo.tasksByStatus,
         isLoading |-> IsLoading(q),
         isConnected |-> q.error = "none",
         error |-> q.error]

-----------------------------------------------------------------------------
(***************************************************************************)
(* Init: the hook has rendered once and its effects have run.              *)
(***************************************************************************)
Init ==
    /\ mounted = TRUE
    /\ projectId \in ProjectIds
    /\ wsOpen = FALSE
    /\ closeCount = 0
    /\ lastJsonMessage = NoMessage
    /\ started = IF Enabled(projectId) THEN 1 ELSE 0
    /\ inFlight = IF Enabled(projectId) THEN {NewFetch(1, projectId)} ELSE {}
    /\ cache = [p \in ProjectIds |->
                  [data |-> Undefined, error |-> "none",
                   fetch |-> IF p = projectId /\ Enabled(p) THEN 1 ELSE 0]]
    /\ latest = [p \in ProjectIds |->
                  [seq |-> IF p = projectId /\ Enabled(p) THEN 1 ELSE 0,
                   response |-> NotArrived]]
    /\ applied = [p \in ProjectIds |-> [seq |-> 0, list |-> <<>>, replaced |-> <<>>]]
    /\ late = [p \in ProjectIds |-> 0]
    /\ outcome = [p \in ProjectIds |-> "none"]
    /\ lastStep = [received |-> NoMessage, invalidated |-> NoCall, elapsed |-> FALSE, awaited |-> 0, settled |-> NoSettle]
    /\ memo = Derive(cache[projectId].data)
    /\ taskArray = TaskListAfterDerive(TaskListOf(cache[projectId].data))
    /\ returned = Derive(Undefined)
    /\ triggered = FALSE
    /\ projectsQuery = [data |-> Undefined, error |-> "none", fetching |-> TRUE,
                        failureCount |-> 0]
    /\ projects = <<>>
    /\ projectsFetched = <<>>

\* the useMemo of lines 60-91 computes the derivation again: `data` is not the
\* data of the render before
Derives == mounted' /\ cache'[projectId'].data # cache[projectId].data

\* every step ends in a render of the mounted hook
Render ==
    /\ memo' = IF Derives THEN Derive(cache'[projectId'].data) ELSE memo
    /\ taskArray' = IF Derives
                    THEN TaskListAfterDerive(TaskListOf(cache'[projectId'].data))
                    ELSE taskArray
    /\ returned' = IF Derives THEN ReturnedAfterDerive(memo) ELSE returned
    /\ triggered' = IF lastStep'.received # NoMessage /\ lastJsonMessage' = lastStep'.received
                    THEN lastStep'.invalidated # NoCall
                    ELSE triggered \/ lastStep'.invalidated # NoCall

\* the step received no message, invalidated nothing and settled no fetch
QuietStep == lastStep' = [received |-> NoMessage, invalidated |-> NoCall, elapsed |-> FALSE, awaited |-> 0, settled |-> NoSettle]

(***************************************************************************)
(* The component re-renders with another projectId.  In the render the     *)
(* handler runs again on the retained lastJsonMessage (its useMemo depends *)
(* on projectId); the query observer moves to the new key afterwards and   *)
(* fetches it, staleTime being 0.                                          *)
(***************************************************************************)
SetProject(pid) ==
    /\ mounted
    /\ pid # projectId
    /\ projectId' = pid
    /\ lastStep' = [received |-> NoMessage,
                    invalidated |-> IF HandlerInvalidates(lastJsonMessage, pid)
                                    THEN pid ELSE NoCall,
                    elapsed |-> FALSE, awaited |-> 0, settled |-> NoSettle]
    /\ IF Enabled(pid) THEN QueryFetch(pid, FALSE)
       ELSE UNCHANGED <<started, inFlight, cache, latest>>
    /\ UNCHANGED <<mounted, wsOpen, closeCount, lastJsonMessage, applied, late, outcome>>
    /\ Render
    /\ UNCHANGED projectsVars

\* shouldReconnect: () => false
NeverReconnects == FALSE

\* line 34, shouldReconnect: () => true, with no reconnectAttempts given: a
\* closed socket is connected again unless DefaultReconnectAttempts reconnects
\* in a row have ended in a close event
Reconnects == closeCount <= DefaultReconnectAttempts

\* the connection attempt under way succeeds
WsOpen ==
    /\ mounted
    /\ ~wsOpen
    /\ Reconnects
    /\ wsOpen' = TRUE
    /\ closeCount' = 0
    /\ QuietStep
    /\ UNCHANGED <<mounted, projectId, lastJsonMessage, cache, started, inFlight, history>>
    /\ Render
    /\ UNCHANGED projectsVars

\* the connection drops; shouldReconnect (line 34) lets WsOpen happen again
WsClose ==
    /\ wsOpen
    /\ wsOpen' = FALSE
    /\ closeCount' = closeCount + 1
    /\ QuietStep
    /\ UNCHANGED <<mounted, projectId, lastJsonMessage, cache, started, inFlight, history>>
    /\ Render
    /\ UNCHANGED projectsVars

\* the connection attempt under way fails: a close event without an open one
WsConnectFail ==
    /\ mounted
    /\ ~wsOpen
    /\ Reconnects
    /\ closeCount' = closeCount + 1
    /\ QuietStep
    /\ UNCHANGED <<mounted, projectId, wsOpen, lastJsonMessage, cache, started,
                   inFlight, history>>
    /\ Render
    /\ UNCHANGED projectsVars

(***************************************************************************)
(* The socket delivers message m: filter, then a render in which the       *)
(* handler (lines 46-58) sees the new lastJsonMessage.                     *)
(***************************************************************************)
WsMessage(m) ==
    /\ mounted
    /\ wsOpen
    /\ IF ~Filter(m)
       THEN /\ lastStep' = [received |-> m, invalidated |-> NoCall, elapsed |-> FALSE, awaited |-> 0, settled |-> NoSettle]
            /\ UNCHANGED <<lastJsonMessage, cache, started, inFlight, latest>>
       ELSE /\ lastJsonMessage' = m
            /\ IF HandlerInvalidates(m, projectId)
               THEN /\ lastStep' = [received |-> m, invalidated |-> projectId,
                                    elapsed |-> FALSE, awaited |-> started + 1,
                                    settled |-> NoSettle]
                    /\ InvalidateQueries(projectId)
               ELSE /\ lastStep' = [received |-> m, invalidated |-> NoCall,
                                    elapsed |-> FALSE, awaited |-> 0, settled |-> NoSettle]
                    /\ UNCHANGED <<cache, started, inFlight, latest>>
    /\ UNCHANGED <<mounted, projectId, wsOpen, closeCount, applied, late, outcome>>
    /\ Render
    /\ UNCHANGED projectsVars

\* the window regains focus: the active query refetches (refetchOnWindowFocus),
\* joining a fetch in flight
WindowFocus ==
    /\ Active(projectId)
    /\ QueryFetch(projectId, FALSE)
    /\ QuietStep
    /\ UNCHANGED <<mounted, projectId, wsOpen, closeCount, lastJsonMessage, applied, late, outcome>>
    /\ Render
    /\ UNCHANGED projectsVars

\* every response is written to the cache, also that of a cancelled fetch
AppliesAlways(f) == TRUE

\* a response is written to the cache unless its fetch was cancelled
Applies(f) == f.live

\* one Snapshot for all projects: a successful fetch stores the data under
\* the project shown, whatever project it was issued for
CacheAfterSuccessOfShown(pid, list) ==
    [cache EXCEPT ![projectId] = [data |-> DataOf(list), error |-> "none", fetch |-> 0],
                  ![pid].fetch = IF pid = projectId THEN 0 ELSE @]

\* a successful fetch adds its tasks to those the query holds
CacheAfterSuccessMerges(pid, list) ==
    [cache EXCEPT ![pid] = [data |-> DataOf(TaskListOf(cache[pid].data) \o list),
                            error |-> "none", fetch |-> 0]]

\* a successful fetch stores the data and leaves error as it is
CacheAfterSuccessKeepsError(pid, list) ==
    [cache EXCEPT ![pid].data = DataOf(list), ![pid].fetch = 0]

\* the query's state after a successful fetch
CacheAfterSuccess(pid, list) ==
    [cache EXCEPT ![pid] = [data |-> DataOf(list), error |-> "none", fetch |-> 0]]

\* tasksApi.list resolves with `list` for fetch f
FetchSucceed(f, list) ==
    /\ f \in inFlight
    /\ inFlight' = inFlight \ {f}
    /\ latest' = IF latest[f.pid].seq = f.seq
                 THEN [latest EXCEPT ![f.pid].response = [arrived |-> TRUE, list |-> list]]
                 ELSE latest
    /\ IF Applies(f)
       THEN /\ cache' = CacheAfterSuccess(f.pid, list)
            /\ applied' = [applied EXCEPT ![f.pid] =
                              [seq |-> f.seq, list |-> list,
                               replaced |-> TaskListOf(cache[f.pid].data)]]
            /\ outcome' = [outcome EXCEPT ![f.pid] = "success"]
            /\ lastStep' = [received |-> NoMessage, invalidated |-> NoCall,
                            elapsed |-> FALSE, awaited |-> 0, settled |-> [kind |-> "applied", pid |-> f.pid]]
       ELSE /\ UNCHANGED <<cache, applied, outcome>>
            /\ lastStep' = [received |-> NoMessage, invalidated |-> NoCall,
                            elapsed |-> FALSE, awaited |-> 0, settled |-> [kind |-> "ignored", pid |-> f.pid]]
    /\ late' = IF applied'[f.pid].seq > f.seq THEN [late EXCEPT ![f.pid] = f.seq] ELSE late
    /\ UNCHANGED <<mounted, projectId, wsOpen, closeCount, lastJsonMessage, started>>
    /\ Render
    /\ UNCHANGED projectsVars

\* a failed fetch stores the error and drops the data
CacheAfterErrorDropsData(pid, e) ==
    [cache EXCEPT ![pid].error = e, ![pid].fetch = 0, ![pid].data = Undefined]

\* one error for all projects: a failed fetch stores its error under the
\* project shown, whatever project it was issued for
CacheAfterErrorOfShown(pid, e) ==
    [cache EXCEPT ![projectId].error = e, ![pid].fetch = 0]

\* the query's state after a fetch has failed for good: the error is stored,
\* data stays
CacheAfterError(pid, e) == [cache EXCEPT ![pid].error = e, ![pid].fetch = 0]

\* with retry: false a rejected call is not repeated
NeverRetries(f) == FALSE

\* a rejected call is repeated while fewer than DefaultRetry calls of the fetch
\* have failed and the query still has its observer
Retries(f) == f.failureCount < DefaultRetry /\ Active(f.pid)

\* tasksApi.list rejects with e for fetch f: the call is repeated up to
\* DefaultRetry times while the query has an observer, then the fetch fails
FetchFail(f, e) ==
    /\ f \in inFlight
    /\ IF ~f.live
       THEN /\ inFlight' = inFlight \ {f}
            /\ lastStep' = [received |-> NoMessage, invalidated |-> NoCall,
                            elapsed |-> FALSE, awaited |-> 0, settled |-> [kind |-> "ignored", pid |-> f.pid]]
            /\ UNCHANGED <<cache, outcome>>
       ELSE IF Retries(f)
       THEN /\ inFlight' = (inFlight \ {f}) \cup {[f EXCEPT !.failureCount = @ + 1]}
            /\ lastStep' = [received |-> NoMessage, invalidated |-> NoCall,
                            elapsed |-> FALSE, awaited |-> 0, settled |-> [kind |-> "retried", pid |-> f.pid]]
            /\ UNCHANGED <<cache, outcome>>
       ELSE /\ inFlight' = inFlight \ {f}
            /\ cache' = CacheAfterError(f.pid, e)
            /\ outcome' = [outcome EXCEPT ![f.pid] = "error"]
            /\ lastStep' = [received |-> NoMessage, invalidated |-> NoCall,
                            elapsed |-> FALSE, awaited |-> 0, settled |-> [kind |-> "failed", pid |-> f.pid]]
    /\ UNCHANGED <<mounted, projectId, wsOpen, closeCount, lastJsonMessage, started, latest,
                   applied, late>>
    /\ Render
    /\ UNCHANGED projectsVars

\* 5000 ms pass and the query refetches, as with refetchInterval: 5000
IntervalElapsedPolls ==
    /\ mounted
    /\ lastStep' = [received |-> NoMessage, invalidated |-> NoCall,
                    elapsed |-> TRUE, awaited |-> 0, settled |-> NoSettle]
    /\ IF Active(projectId) THEN QueryFetch(projectId, FALSE)
       ELSE UNCHANGED <<started, inFlight, cache, latest>>
    /\ UNCHANGED <<mounted, projectId, wsOpen, closeCount, lastJsonMessage, applied, late, outcome>>
    /\ Render
    /\ UNCHANGED projectsVars

\* 5000 ms pass: refetchInterval is commented out (lines 28-29), the query has
\* no timer and nothing of the hook runs
IntervalElapsed ==
    /\ mounted
    /\ lastStep' = [received |-> NoMessage, invalidated |-> NoCall,
                    elapsed |-> TRUE, awaited |-> 0, settled |-> NoSettle]
    /\ UNCHANGED <<mounted, projectId, wsOpen, closeCount, lastJsonMessage, cache, started,
                   inFlight, history>>
    /\ Render
    /\ UNCHANGED projectsVars

\* the component unmounts: the observer unsubscribes, the socket closes
Unmount ==
    /\ mounted
    /\ mounted' = FALSE
    /\ wsOpen' = FALSE
    /\ QuietStep
    /\ UNCHANGED <<closeCount, projectId, lastJsonMessage, cache, started, inFlight,
                   history>>
    /\ Render
    /\ UNCHANGED projectsVars

(***************************************************************************)
(* Spec: the hook with every outcome of its fetches.  The socket opens and *)
(* delivers notifications; its closing and reconnecting are in             *)
(* SpecListener, SpecPolling and SpecSocket.                               *)
(***************************************************************************)
Next ==
    \/ \E pid \in ProjectIds : SetProject(pid)
    \/ WsOpen
    \/ \E m \in RefreshMessages : WsMessage(m)
    \/ WindowFocus
    \/ \E f \in inFlight, list \in Responses : FetchSucceed(f, list)
    \/ \E f \in inFlight, e \in FetchErrors : FetchFail(f, e)
    \/ Unmount

Spec == Init /\ [][Next]_vars

(***************************************************************************)
(* SpecListener: the same hook, the socket delivering every kind of        *)
(* message, with fewer fetches.                                            *)
(***************************************************************************)
NextListener ==
    \/ \E pid \in ProjectIds : SetProject(pid) /\ started' <= MaxListenerFetches
    \/ WsOpen
    \/ WsClose
    \/ \E m \in WsMessages : WsMessage(m) /\ started' <= MaxListenerFetches
    \/ WindowFocus /\ started' <= MaxListenerFetches
    \/ \E f \in inFlight : FetchSucceed(f, ListenerResponse)
    \/ \E f \in inFlight : FetchFail(f, "NetworkError")
    \/ Unmount

SpecListener == Init /\ [][NextListener]_vars

(***************************************************************************)
(* SpecPolling: the same hook with time passing and no message delivered.  *)
(***************************************************************************)
NextPolling ==
    \/ \E pid \in ProjectIds : SetProject(pid) /\ started' <= MaxListenerFetches
    \/ WsOpen
    \/ WsClose
    \/ IntervalElapsed
    \/ WindowFocus /\ started' <= MaxListenerFetches
    \/ \E f \in inFlight : FetchSucceed(f, ListenerResponse)
    \/ \E f \in inFlight : FetchFail(f, "NetworkError")
    \/ Unmount

SpecPolling == Init /\ [][NextPolling]_vars

(***************************************************************************)
(* SpecSocket: the same hook with connection attempts that fail.           *)
(***************************************************************************)
NextSocket ==
    \/ WsOpen
    \/ WsClose
    \/ WsConnectFail
    \/ \E m \in RefreshMessages : WsMessage(m) /\ started' <= MaxListenerFetches
    \/ \E f \in inFlight : FetchSucceed(f, ListenerResponse)
    \/ Unmount

SpecSocket == Init /\ [][NextSocket]_vars

(***************************************************************************)
(* SpecRefresh: the hook stays mounted on one project, every network call  *)
(* succeeds, and every call under way completes eventually.                *)
(***************************************************************************)
Completes == \E f \in inFlight, list \in Responses : FetchSucceed(f, list)

NextRefresh ==
    \/ WsOpen
    \/ WsClose
    \/ \E m \in RefreshMessages : WsMessage(m)
    \/ WindowFocus
    \/ Completes

SpecRefresh == Init /\ [][NextRefresh]_vars /\ WF_vars(Completes)

(***************************************************************************)
(* useProjects (useProjects.ts): the query ['projects'] (lines 23-28), the *)
(* message handler (lines 30-51) and the sorted list (lines 61-67).        *)
(***************************************************************************)

\* a project as far as the sort reads it; projectsApi.list resolves with any
\* list of them
Projects == [id : ProjectIds \ {""}, created_at : Timestamps]

ProjectLists(n) == [1..n -> Projects]

\* lines 62-66: (data || []).sort(...) sorts the array `data` itself and
\* returns it; the comparator is that of useProjectTasks
DataAfterSort(data) == SortCreatedDesc(data)

\* useProjects.ts line 36: the filter of its socket
ProjectsFilter(type) == type = "project_created"

\* the socket of useProjects delivers a message of this type; the handler
\* (lines 44-51) invalidates ['projects'], which refetches the query: a fetch
\* under way is joined during the first load and started over otherwise
ProjectsMessage(type) ==
    /\ IF ProjectsFilter(type) /\ (projectsQuery.data.defined \/ ~projectsQuery.fetching)
       THEN projectsQuery' =
                [projectsQuery EXCEPT
                    !.fetching = TRUE,
                    !.failureCount = 0,
                    !.error = IF projectsQuery.data.defined THEN @ ELSE "none"]
       ELSE UNCHANGED projectsQuery
    /\ UNCHANGED <<projects, projectsFetched, tasksVars>>

\* projectsApi.list resolves with `list`: the query stores it as `data`, and
\* in the render that follows the useMemo of lines 61-67 sorts it
ProjectsFetchSucceed(list) ==
    /\ projectsQuery.fetching
    /\ projectsFetched' = list
    /\ projectsQuery' = [data |-> DataOf(DataAfterSort(list)), error |-> "none",
                         fetching |-> FALSE, failureCount |-> 0]
    /\ projects' = DataAfterSort(list)
    /\ UNCHANGED tasksVars

\* projectsApi.list rejects: the call is repeated DefaultRetry times, then
\* the error is stored; `data` stays
ProjectsFetchFail ==
    /\ projectsQuery.fetching
    /\ projectsQuery' =
           IF projectsQuery.failureCount < DefaultRetry
           THEN [projectsQuery EXCEPT !.failureCount = @ + 1]
           ELSE [projectsQuery EXCEPT !.error = "NetworkError", !.fetching = FALSE,
                                      !.failureCount = 0]
    /\ UNCHANGED <<projects, projectsFetched, tasksVars>>

NextProjects ==
    \/ \E type \in {"project_created", "task_updated"} : ProjectsMessage(type)
    \/ \E n \in 0..MaxLen : \E list \in ProjectLists(n) : ProjectsFetchSucceed(list)
    \/ ProjectsFetchFail

SpecProjects == Init /\ [][NextProjects]_vars

(***************************************************************************)
(* SpecDerive: the first fetch of project p1 answers with any task list.   *)
(***************************************************************************)
InitDerive == Init /\ projectId = "p1"

NextDerive ==
    \E f \in inFlight, n \in 0..MaxLen : \E list \in TaskLists(n) : FetchSucceed(f, list)

SpecDerive == InitDerive /\ [][NextDerive]_vars

-----------------------------------------------------------------------------
(***************************************************************************)
(* Properties.                                                             *)
(***************************************************************************)

\* once the response of the fetch initiated last for a query has arrived,
\* the query's data is that response
LatestResponseShown ==
    \A p \in ProjectIds :
        latest[p].response.arrived => cache[p].data = DataOf(latest[p].response.list)

\* the position of the applied fetch in the order of initiation never decreases
AppliedNeverDecreases == \A p \in ProjectIds : applied'[p].seq >= applied[p].seq

\* C1 (monotonic freshness): for two fetches A and B of one project, A
\* initiated before B and B completing before A, the Snapshot after both have
\* settled is B's result; the response of an earlier-initiated fetch is never
\* applied over that of a later-initiated one (the applied sequence number
\* never decreases).
MonotonicFreshness == []LatestResponseShown /\ [][AppliedNeverDecreases]_vars

\* a response arrived late for a query whose later fetch had been applied
\* before, both fetches have settled and the data is the later one's response
LateResponseDiscarded ==
    \E p \in ProjectIds :
        /\ late[p] > 0
        /\ applied[p].seq > late[p]
        /\ applied[p].seq = latest[p].seq
        /\ \A f \in inFlight : f.pid # p
        /\ cache[p].data = DataOf(applied[p].list)
        /\ applied[p].list # <<>>

\* the three derived fields of `result` are the derivation of `list`
ShowsDerivationOf(result, list) ==
    /\ result.tasks = Derive(DataOf(list)).tasks
    /\ result.tasksById = Derive(DataOf(list)).tasksById
    /\ result.tasksByStatus = Derive(DataOf(list)).tasksByStatus

\* C2: when a fetch fails (NetworkError or ResponseError) after an earlier
\* successful fetch for the same project, error becomes non-null and tasks,
\* tasksById and tasksByStatus still are the derivation of the last
\* successfully fetched Snapshot; the failure does not empty or change it.
FailureKeepsSnapshot ==
    \A p \in ProjectIds :
        lastStep.settled = [kind |-> "failed", pid |-> p] /\ applied[p].seq > 0
        => /\ cache[p].error \in FetchErrors
           /\ cache[p].data = DataOf(applied[p].list)
           /\ projectId = p => /\ Result.error # "none"
                               /\ ShowsDerivationOf(Result, applied[p].list)

\* a fetch of the shown project has just failed after one that brought tasks
FailedAfterSuccess ==
    /\ mounted
    /\ lastStep.settled = [kind |-> "failed", pid |-> projectId]
    /\ applied[projectId].seq > 0
    /\ Result.tasks # <<>>
    /\ Result.error = "ResponseError"

\* the message the last step received names the project shown
NamesActiveProject(m) == m.data = "object" /\ m.project_id = projectId

\* C3: a notification whose data.project_id differs from the active projectId
\* triggers no invalidateQueries call, whatever its type and in every state.
ForeignNotificationNoRefresh ==
    lastStep.received # NoMessage /\ ~NamesActiveProject(lastStep.received)
    => lastStep.invalidated = NoCall

\* a task_updated notification for another project was received and dropped
ForeignNotificationDropped ==
    /\ lastStep.received.type = "task_updated"
    /\ lastStep.received.data = "object"
    /\ lastStep.received.project_id = "p2"
    /\ projectId = "p1"
    /\ lastJsonMessage = lastStep.received
    /\ lastStep.invalidated = NoCall

\* C4: every received notification of type task_created, task_updated or
\* task_deleted whose data.project_id is the active projectId calls
\* invalidateQueries for that project's task list.
MatchingNotificationRefreshes ==
    /\ lastStep.received.json = "object"
    /\ lastStep.received.type \in TaskChangeTypes
    /\ NamesActiveProject(lastStep.received)
    => lastStep.invalidated = projectId

\* a task_deleted notification for the project shown was received and the
\* query invalidated, which started a fetch
MatchingNotificationHandled ==
    /\ lastStep.received.type = "task_deleted"
    /\ NamesActiveProject(lastStep.received)
    /\ projectId = "p2"
    /\ lastStep.invalidated = "p2"
    /\ cache["p2"].fetch = started

\* the list the shown project's last applied fetch answered with
FetchedList == applied[projectId].list

\* the derivation shown is that of a response to the shown project's fetch
DerivedFromFetch == mounted /\ applied[projectId].seq > 0

\* C5 (no duplicate identities): for any fetched task list, also one that
\* holds a task id more than once, tasks is as long as tasksById has keys and
\* no two entries of tasks share an id.
NoDuplicateIdentities ==
    /\ Len(Result.tasks) = Cardinality(DOMAIN Result.tasksById)
    /\ \A i, j \in 1..Len(Result.tasks) :
          Result.tasks[i].id = Result.tasks[j].id => i = j

\* the fetched list repeats an id and tasks holds that task once
RepeatedIdShownOnce ==
    /\ DerivedFromFetch
    /\ Len(FetchedList) = 2
    /\ FetchedList[1].id = FetchedList[2].id
    /\ Len(Result.tasks) = 1

\* the places <<s, k>> of the groups of tasksByStatus
GroupPlaces(groups) ==
    UNION {{<<s, k>> : k \in 1..Len(groups[s])} : s \in DOMAIN groups}

\* C6 (status completeness): each task of tasks whose status is one of the
\* five keys of tasksByStatus appears in exactly one group, and the lengths
\* of all groups add up to the number of tasks of tasks with such a status,
\* for any fetched task list, also one that repeats a task id.
StatusCompleteness ==
    LET groups == Result.tasksByStatus
        recognized == {i \in 1..Len(Result.tasks) :
                          Result.tasks[i].status \in StatusKeys}
    IN  /\ \A i \in recognized :
              Cardinality({pl \in GroupPlaces(groups) :
                              groups[pl[1]][pl[2]].id = Result.tasks[i].id}) = 1
        /\ Cardinality(GroupPlaces(groups)) = Cardinality(recognized)

\* tasks is in descending order of created_at
CreatedDescending ==
    \A i, j \in 1..Len(Result.tasks) :
        i < j => Result.tasks[i].created_at >= Result.tasks[j].created_at

\* the place where the fetched list names id first
FirstListed(id) ==
    CHOOSE i \in 1..Len(FetchedList) :
        /\ FetchedList[i].id = id
        /\ \A j \in 1..Len(FetchedList) : FetchedList[j].id = id => i <= j

\* C7 as stated: tasks is ordered by created_at descending, and two tasks with
\* equal created_at appear in ascending order of their id, whatever the order
\* in which the response listed them.
TiesByAscendingId ==
    /\ CreatedDescending
    /\ \A i, j \in 1..Len(Result.tasks) :
          i < j /\ Result.tasks[i].created_at = Result.tasks[j].created_at
          => Result.tasks[i].id < Result.tasks[j].id

\* C7: tasks is ordered by created_at descending; two tasks with equal
\* created_at keep the order of Object.values(merged): ids that are array
\* indices first, ascending, then the other ids in the order in which the
\* response listed them first.
TiesByPropertyOrder ==
    /\ CreatedDescending
    /\ \A i, j \in 1..Len(Result.tasks) :
          i < j /\ Result.tasks[i].created_at = Result.tasks[j].created_at
          => LET a == Result.tasks[i].id
                 b == Result.tasks[j].id
             IN  \/ IsArrayIndex(a) /\ IsArrayIndex(b) /\ a < b
                 \/ IsArrayIndex(a) /\ ~IsArrayIndex(b)
                 \/ /\ ~IsArrayIndex(a)
                    /\ ~IsArrayIndex(b)
                    /\ FirstListed(a) < FirstListed(b)

\* two tasks created at the same time, their ids not array indices, are shown
\* in the order of the response, the greater id first
TieShownInListedOrder ==
    /\ DerivedFromFetch
    /\ Len(Result.tasks) = 2
    /\ Result.tasks[1].created_at = Result.tasks[2].created_at
    /\ ~IsArrayIndex(Result.tasks[2].id)
    /\ Result.tasks[1].id > Result.tasks[2].id
    /\ FetchedList[1].id = Result.tasks[1].id

\* a fetch of the shown project has just answered with an empty list
EmptyListFetched ==
    /\ mounted
    /\ lastStep.settled = [kind |-> "applied", pid |-> projectId]
    /\ FetchedList = <<>>

\* nothing to show, no load under way, no error; the groups are those of `keys`
ShowsEmptyProject(keys) ==
    /\ Result.tasks = <<>>
    /\ DOMAIN Result.tasksById = {}
    /\ DOMAIN Result.tasksByStatus = keys
    /\ \A s \in DOMAIN Result.tasksByStatus : Result.tasksByStatus[s] = <<>>
    /\ Result.isLoading = FALSE
    /\ Result.error = "none"

\* C8 as stated: after a successful fetch returning an empty list, tasks and
\* tasksById are empty, tasksByStatus has exactly the keys todo, in_progress,
\* in_review, done, cancelled, each with an empty list, isLoading is false and
\* error is null.
EmptyProjectSpecKeys ==
    EmptyListFetched
    => ShowsEmptyProject({"todo", "in_progress", "in_review", "done", "cancelled"})

\* C8: after a successful fetch returning an empty list, tasks and tasksById
\* are empty, tasksByStatus has exactly the keys todo, inprogress, inreview,
\* done, cancelled, each with an empty list, isLoading is false and error is
\* null.
EmptyProjectCodeKeys ==
    EmptyListFetched
    => ShowsEmptyProject({"todo", "inprogress", "inreview", "done", "cancelled"})

\* a refetch of the shown project has just answered with an empty list
EmptyListRefetched ==
    /\ EmptyListFetched
    /\ applied[projectId].seq > 1
    /\ outcome[projectId] = "success"
    /\ Result.tasksByStatus["inprogress"] = <<>>
    /\ Result.error = "none"

\* the lists that hold the elements of `list`, in any order
Reorderings(list) ==
    LET n == Len(list)
    IN  {[i \in 1..n |-> list[q[i]]] :
            q \in {r \in [1..n -> 1..n] : \A i, j \in 1..n : r[i] = r[j] => i = j}}

\* no two places of `list` hold the same id
DistinctIds(list) ==
    \A i, j \in 1..Len(list) : list[i].id = list[j].id => i = j

\* no two places of `list` hold the same created_at
DistinctTimestamps(list) ==
    \A i, j \in 1..Len(list) : list[i].created_at = list[j].created_at => i = j

\* what is shown is the derivation of every reordering of the fetched list
SameForEveryOrder ==
    \A perm \in Reorderings(FetchedList) : ShowsDerivationOf(Result, perm)

\* C9 as stated: deriving again from the unchanged Snapshot gives the same
\* tasks, tasksById and tasksByStatus, and the result depends only on the set
\* of tasks of the Snapshot, not on the order in which the response listed
\* them.
DerivationIgnoresOrder ==
    DerivedFromFetch /\ DistinctIds(FetchedList)
    => ShowsDerivationOf(Result, FetchedList) /\ SameForEveryOrder

\* C9: deriving again from the unchanged Snapshot gives the same tasks,
\* tasksById and tasksByStatus; the result does not depend on the order in
\* which the response listed the tasks when no two of them share an id or a
\* created_at.
DerivationIgnoresOrderWithoutTies ==
    DerivedFromFetch
    => /\ ShowsDerivationOf(Result, FetchedList)
       /\ DistinctIds(FetchedList) /\ DistinctTimestamps(FetchedList)
          => SameForEveryOrder

\* two tasks of one status, their ids not array indices, were listed the
\* older one first and are shown the newer one first
ReorderedListShown ==
    /\ DerivedFromFetch
    /\ Len(FetchedList) = 2
    /\ FetchedList[1].id = 3
    /\ FetchedList[2].id = 4
    /\ FetchedList[1].status = "todo"
    /\ FetchedList[2].status = "todo"
    /\ FetchedList[1].created_at < FetchedList[2].created_at
    /\ Result.tasks = <<FetchedList[2], FetchedList[1]>>
    /\ Result.tasksByStatus["todo"] = Result.tasks

\* the step has just applied a successful fetch of project p
AppliedSuccess(p) == lastStep'.settled = [kind |-> "applied", pid |-> p]

\* the step clears the error of project p
ErrorCleared(p) == cache[p].error # "none" /\ cache'[p].error = "none"

\* error is null unless the last fetch of the project that ran to its end failed
ErrorNullUnlessLastFailed ==
    \A p \in ProjectIds : outcome[p] # "error" => cache[p].error = "none"

\* C10 as stated: error is null before any fetch has completed and whenever
\* the most recently completed fetch succeeded; once a failure has set it, it
\* stays non-null across notifications and further failures and only the next
\* successful fetch resets it to null.
ErrorClearedOnlyBySuccess ==
    [][\A p \in ProjectIds : ErrorCleared(p) => AppliedSuccess(p)]_vars

\* an error is cleared by a successful fetch or, while the project has no
\* data yet, by the start of its next fetch, which shows it as loading
ClearedBySuccessOrFirstLoad ==
    \A p \in ProjectIds :
        ErrorCleared(p)
        => \/ AppliedSuccess(p)
           \/ /\ ~cache[p].data.defined
              /\ cache'[p].fetch = started'
              /\ started' = started + 1
              /\ IsLoading(cache'[p])

\* C10: error is null before any fetch has completed and whenever the most
\* recently completed fetch succeeded; once a failure has set it, it stays
\* non-null across further failures and, when the project has fetched data,
\* across notifications until the next successful fetch; for a project
\* without data the start of the next fetch resets it to null as well.
ErrorClearedBySuccessOrRetry ==
    []ErrorNullUnlessLastFailed /\ [][ClearedBySuccessOrFirstLoad]_vars

\* the first fetch of the shown project failed and a notification started the
\* next one, which reset error with no successful fetch in between
ErrorClearedByNotification ==
    /\ mounted
    /\ outcome[projectId] = "error"
    /\ applied[projectId].seq = 0
    /\ lastStep.invalidated = projectId
    /\ cache[projectId].fetch = started
    /\ Result.error = "none"
    /\ Result.isLoading

\* C11: in every state of the mounted hook isConnected is true exactly when
\* the WebSocket is open: a fetch failure while it is open leaves isConnected
\* true, and a closed socket after a successful fetch gives isConnected false.
ConnectedIffSocketOpen == mounted => Result.isConnected = wsOpen

\* C12 as stated: whenever the WebSocket is unavailable a polling trigger
\* calls refresh every 5 time units, unconditionally, so that a change on the
\* server reaches the Snapshot even if no notification is ever delivered.
PollingWhileSocketClosed ==
    lastStep.elapsed /\ ~wsOpen /\ Active(projectId) => cache[projectId].fetch # 0

\* C12: there is no polling; the passing of time starts no fetch and changes
\* neither the query cache nor the derived fields, whether the WebSocket is
\* open or not.
NoPolling ==
    [][lastStep'.elapsed => UNCHANGED <<cache, started, inFlight, memo>>]_vars

\* 5000 ms have passed with the socket closed, after a successful fetch, and
\* no fetch is under way
IntervalElapsedWithoutFetch ==
    /\ lastStep.elapsed
    /\ ~wsOpen
    /\ Active(projectId)
    /\ applied[projectId].seq > 0
    /\ cache[projectId].fetch = 0
    /\ inFlight = {}

\* C13 (no cross-project leakage): what is shown for the active project is
\* derived from the last response to a fetch issued for that project, and is
\* empty while no such response has been applied; a response to a fetch issued
\* for another project never reaches it.
NoCrossProjectLeakage ==
    mounted
    => IF applied[projectId].seq > 0
       THEN /\ cache[projectId].data = DataOf(applied[projectId].list)
            /\ ShowsDerivationOf(Result, applied[projectId].list)
       ELSE /\ cache[projectId].data = Undefined
            /\ Result.tasks = <<>>
            /\ DOMAIN Result.tasksById = {}
            /\ \A s \in StatusKeys : Result.tasksByStatus[s] = <<>>

\* the project changed from p1 to p2 while p1's fetch was under way; its
\* response, with tasks, has just been stored and p2 shows none of them
OtherProjectsResponseNotShown ==
    /\ mounted
    /\ projectId = "p2"
    /\ lastStep.settled = [kind |-> "applied", pid |-> "p1"]
    /\ applied["p1"].list # <<>>
    /\ applied["p2"].seq = 0
    /\ Result.tasks = <<>>

\* the network calls of project p that have not settled
Outstanding(p) == {f \in inFlight : f.pid = p}

\* C14 as stated: at every moment at most one fetch per project is
\* outstanding; a refresh trigger arriving while a fetch is in flight starts
\* no second concurrent network call, for any burst of notifications.
AtMostOneOutstanding == \A p \in ProjectIds : Cardinality(Outstanding(p)) <= 1

\* at most one fetch per project is live: its response will be applied
AtMostOneLive ==
    \A p \in ProjectIds : Cardinality({f \in Outstanding(p) : f.live}) <= 1

\* a notification that invalidates the query during the first load of the
\* project joins the fetch in flight; one during a refetch cancels that fetch
\* and starts the next call
InvalidationJoinsFirstLoad ==
    /\ lastStep'.received # NoMessage
    /\ lastStep'.invalidated = projectId
    /\ cache[projectId].fetch # 0
    => IF cache[projectId].data.defined
       THEN /\ started' = started + 1
            /\ \A f \in Outstanding(projectId) :
                  \E g \in inFlight' : g.seq = f.seq /\ ~g.live
       ELSE UNCHANGED <<started, inFlight>>

\* C14: at most one fetch per project is live.  A notification during the
\* first load of a project joins the fetch in flight; a notification during a
\* refetch of a project that has data cancels that fetch, whose network call
\* goes on, and starts another call.
AtMostOneLiveFetch == []AtMostOneLive /\ [][InvalidationJoinsFirstLoad]_vars

\* a notification arrived during a refetch: two network calls of the project
\* shown are outstanding, the earlier one cancelled
SecondCallOutstanding ==
    /\ lastStep.received # NoMessage
    /\ lastStep.invalidated = projectId
    /\ Cardinality(Outstanding(projectId)) = 2
    /\ \E f \in Outstanding(projectId) : ~f.live
    /\ \E f \in Outstanding(projectId) : f.live /\ f.seq = started

\* C15 as stated: each fetch performs exactly one network call; a failed
\* call is reported as the failure of that fetch and is not retried.
OneCallPerFetch == \A f \in inFlight : f.failureCount = 0

\* a fetch is reported as failed only when its fourth call has failed, or an
\* earlier one after the query lost its observer
FailsAfterRetries ==
    \A f \in inFlight :
        f \notin inFlight' /\ lastStep'.settled = [kind |-> "failed", pid |-> f.pid]
        => f.failureCount = 3 \/ ~Active(f.pid)

\* C15: a fetch performs up to four network calls: a failed call is repeated
\* up to three times while the hook is mounted and shows the project, and only
\* the failure of the last call is reported as error.
UpToThreeRetries ==
    [](\A f \in inFlight : f.failureCount <= 3) /\ [][FailsAfterRetries]_vars

\* three calls of a fetch of the project shown have failed, the fourth is
\* under way and no error is shown
FourthCallUnderWay ==
    /\ mounted
    /\ \E f \in inFlight : f.pid = projectId /\ f.live /\ f.failureCount = 3
    /\ lastStep.settled = [kind |-> "retried", pid |-> projectId]
    /\ Result.error = "none"

\* C16 as stated: the result of the hook offers a manual refresh() in every
\* mounted state, which initiates a fetch for the active project when called.
RefreshOffered == mounted => "refresh" \in DOMAIN Result

\* C16: the result of the hook consists of tasks, tasksById, tasksByStatus,
\* isLoading, isConnected and error; it offers no refresh operation.
NoRefreshOffered ==
    mounted
    => DOMAIN Result = {"tasks", "tasksById", "tasksByStatus",
                        "isLoading", "isConnected", "error"}

\* the hook shows an error, no fetch is under way and the socket is closed
ErrorShownAndIdle ==
    /\ mounted
    /\ ~wsOpen
    /\ Result.error # "none"
    /\ cache[projectId].fetch = 0
    /\ inFlight = {}

\* the record lacks its id or its status
Malformed(t) == t.id = UndefinedKey \/ t.status = "undefined"

\* C17: for any fetched list in which a record lacks a required field the
\* derivation completes, that record appears in none of tasks, tasksById and
\* tasksByStatus, every well-formed task is present and in order, and error
\* stays null.
MalformedRecordsExcluded ==
    DerivedFromFetch
    => /\ \A i \in 1..Len(Result.tasks) : ~Malformed(Result.tasks[i])
       /\ \A id \in DOMAIN Result.tasksById : ~Malformed(Result.tasksById[id])
       /\ \A pl \in GroupPlaces(Result.tasksByStatus) :
             ~Malformed(Result.tasksByStatus[pl[1]][pl[2]])
       /\ \A i \in 1..Len(FetchedList) :
             ~Malformed(FetchedList[i])
             => \E j \in 1..Len(Result.tasks) : Result.tasks[j].id = FetchedList[i].id
       /\ CreatedDescending
       /\ Result.error = "none"

\* C18: a task whose status is none of the five keys of tasksByStatus appears
\* in no group, is still present in tasks and in tasksById, and creates no
\* new group key.
UnrecognizedStatusUngrouped ==
    DerivedFromFetch
    => /\ DOMAIN Result.tasksByStatus = StatusKeys
       /\ \A i \in 1..Len(FetchedList) :
             FetchedList[i].status \notin StatusKeys
             => /\ FetchedList[i].id \in DOMAIN Result.tasksById
                /\ \E j \in 1..Len(Result.tasks) : Result.tasks[j].id = FetchedList[i].id
       /\ \A j \in 1..Len(Result.tasks) :
             Result.tasks[j].status \notin StatusKeys
             => \A pl \in GroupPlaces(Result.tasksByStatus) :
                   Result.tasksByStatus[pl[1]][pl[2]].id # Result.tasks[j].id

\* the message is not JSON, not a JSON object, or lacks type, data or
\* data.project_id
MalformedMessage(m) ==
    \/ m.json # "object"
    \/ m.type = Absent
    \/ m.data = Absent
    \/ m.project_id = Absent

\* C19: a malformed notification (not JSON, JSON that is not an object,
\* without type, without data or without data.project_id) triggers no
\* refresh, does not set error and leaves the Snapshot and every field of the
\* result unchanged.
MalformedNotificationDropped ==
    [][lastStep'.received # NoMessage /\ MalformedMessage(lastStep'.received)
       => /\ lastStep'.invalidated = NoCall
          /\ UNCHANGED <<cache, started, inFlight, memo>>
          /\ Result' = Result]_vars

\* a task_updated notification without project_id passed the filter while
\* tasks were shown, and nothing was invalidated
NotificationWithoutProjectDropped ==
    /\ mounted
    /\ lastStep.received.type = "task_updated"
    /\ lastStep.received.data = "object"
    /\ lastStep.received.project_id = Absent
    /\ lastJsonMessage = lastStep.received
    /\ lastStep.invalidated = NoCall
    /\ Result.tasks # <<>>

\* the socket of the mounted hook is closed
SocketClosed == mounted /\ ~wsOpen

\* C20 as stated: a failure or closure of the WebSocket never sets error and
\* never changes the Snapshot; the hook keeps trying to reconnect, and after a
\* reconnect matching notifications trigger refreshes again.
AlwaysReconnects == SocketClosed => ENABLED WsOpen

\* a step of the socket alone leaves the query, its fetches and the derived
\* fields as they are
SocketStepKeepsSnapshot ==
    wsOpen' # wsOpen \/ closeCount' # closeCount
    => /\ UNCHANGED <<cache, started, inFlight, memo>>
       /\ Result'.error = Result.error

\* C20: a failure or closure of the WebSocket never sets error and never
\* changes the Snapshot; the hook tries to reconnect until 20 reconnects in a
\* row have failed, and then stops for good.
ReconnectsTwentyTimes ==
    /\ [](SocketClosed => (ENABLED WsOpen <=> closeCount <= 20))
    /\ [][SocketStepKeepsSnapshot]_vars

\* the socket has closed 21 times in a row: the hook has stopped reconnecting,
\* still shows the tasks fetched and no error
ReconnectingStopped ==
    /\ SocketClosed
    /\ closeCount = 21
    /\ ~ENABLED WsOpen
    /\ Result.tasks # <<>>
    /\ Result.error = "none"

\* the tasks of `list` that carry status s, in the order of `list`
RestrictedTo(list, s) == SelectSeq(list, LAMBDA t : t.status = s)

\* the list is in descending order of created_at, ties in ascending order of id
CreatedDescendingThenId(list) ==
    \A i, j \in 1..Len(list) :
        i < j => \/ list[i].created_at > list[j].created_at
                 \/ /\ list[i].created_at = list[j].created_at
                    /\ list[i].id < list[j].id

\* C21: every group of tasksByStatus is ordered by created_at descending with
\* ties in ascending order of id, and equals tasks restricted to the tasks of
\* that status, in the same relative order.
GroupsAreTasksByStatus ==
    DerivedFromFetch
    => \A s \in StatusKeys :
          /\ CreatedDescendingThenId(Result.tasksByStatus[s])
          /\ Result.tasksByStatus[s] = RestrictedTo(Result.tasks, s)

\* the ids the list names
IdsOf(list) == {list[i].id : i \in 1..Len(list)}

\* the records the list holds
RecordsOf(list) == {list[i] : i \in 1..Len(list)}

\* C22: after every successful fetch the Snapshot holds exactly the tasks of
\* that fetch's response: the query's data is the response, tasks and
\* tasksById name exactly its ids, every record shown is one of the response,
\* and a task of the Snapshot before that the response does not name is in
\* none of tasks, tasksById and the groups of tasksByStatus.
ReplacedWholesale ==
    \A p \in ProjectIds :
        lastStep.settled = [kind |-> "applied", pid |-> p]
        => /\ cache[p].data = DataOf(applied[p].list)
           /\ mounted /\ p = projectId
              => /\ IdsOf(Result.tasks) = IdsOf(applied[p].list)
                 /\ DOMAIN Result.tasksById = IdsOf(applied[p].list)
                 /\ RecordsOf(Result.tasks) \subseteq RecordsOf(applied[p].list)
                 /\ \A pl \in GroupPlaces(Result.tasksByStatus) :
                       Result.tasksByStatus[pl[1]][pl[2]] \in RecordsOf(applied[p].list)
                 /\ \A id \in IdsOf(applied[p].replaced) \ IdsOf(applied[p].list) :
                       /\ id \notin IdsOf(Result.tasks)
                       /\ id \notin DOMAIN Result.tasksById
                       /\ \A pl \in GroupPlaces(Result.tasksByStatus) :
                             Result.tasksByStatus[pl[1]][pl[2]].id # id

\* a refetch of the shown project answered with an empty list where two tasks
\* were shown before: none of them is shown any more
TasksOfPreviousSnapshotGone ==
    /\ mounted
    /\ lastStep.settled = [kind |-> "applied", pid |-> projectId]
    /\ Len(applied[projectId].replaced) = 2
    /\ applied[projectId].list = <<>>
    /\ Result.tasks = <<>>
    /\ DOMAIN Result.tasksById = {}
    /\ \A s \in StatusKeys : Result.tasksByStatus[s] = <<>>

\* the step settles a network call of a project that is not shown, or of any
\* project after the unmount
SettlesUnobserved ==
    /\ lastStep'.settled.kind # "none"
    /\ ~mounted \/ lastStep'.settled.pid # projectId

\* C23: a response to a fetch issued for project P that arrives after the hook
\* has moved on to project Q, or after the unmount, changes nothing the
\* consumer observes for Q: the derived fields, error and isLoading stay as
\* they are.
LateResponseInert ==
    [][SettlesUnobserved
       => /\ memo' = memo
          /\ mounted => Result' = Result]_vars

\* the fetch of p1 has failed after the switch to p2: its error is stored for
\* p1, and p2 shows its own tasks and no error
OtherProjectsFailureNotShown ==
    /\ mounted
    /\ projectId = "p2"
    /\ lastStep.settled = [kind |-> "failed", pid |-> "p1"]
    /\ cache["p1"].error = "NetworkError"
    /\ Result.tasks # <<>>
    /\ Result.error = "none"
    /\ ~Result.isLoading

\* the array the query holds for the project shown is, after the derivation,
\* the list that was fetched, element by element
InputArrayKept ==
    mounted
    => /\ taskArray = TaskListOf(cache[projectId].data)
       /\ applied[projectId].seq > 0 => taskArray = applied[projectId].list

\* a derivation leaves what the one before returned as it was
ReturnedValueKept == memo' # memo => returned' = memo

\* C24: the derivation never mutates its input: after it has run, the array
\* held by the query cache has the same elements in the same order as before,
\* and tasks, tasksById and tasksByStatus returned earlier are not modified by
\* a later derivation.
DerivationKeepsInput == []InputArrayKept /\ [][ReturnedValueKept]_vars

\* a response that lists the older task first has been derived: tasks shows
\* the newer one first, the array of the query still lists the older one first,
\* and the empty fields returned before the response are still empty
UnsortedInputKept ==
    /\ DerivedFromFetch
    /\ Len(FetchedList) = 2
    /\ FetchedList[1].created_at < FetchedList[2].created_at
    /\ Result.tasks = <<FetchedList[2], FetchedList[1]>>
    /\ taskArray = FetchedList
    /\ cache[projectId].data.list = FetchedList
    /\ returned = Derive(Undefined)

\* the step receives a message whose type is none of the task-change types
ReceivesOtherType ==
    /\ lastStep'.received.json = "object"
    /\ lastStep'.received.type \notin TaskChangeTypes

\* C25: a notification whose type is outside task_created, task_updated,
\* task_deleted (project_created, say) triggers no refresh of the task list,
\* also when its data.project_id is the active projectId: it does not become
\* lastJsonMessage, nothing is invalidated and no fetch starts.
OtherTypeNoRefresh ==
    [][ReceivesOtherType
       => /\ lastStep'.invalidated = NoCall
          /\ UNCHANGED <<lastJsonMessage, cache, started, inFlight, memo>>]_vars

\* a project_created notification naming the project shown has been received
\* while its tasks were shown: it was filtered out and no fetch is under way
ProjectCreatedFilteredOut ==
    /\ mounted
    /\ lastStep.received.type = "project_created"
    /\ NamesActiveProject(lastStep.received)
    /\ lastJsonMessage # lastStep.received
    /\ lastStep.invalidated = NoCall
    /\ Result.tasks # <<>>
    /\ cache[projectId].fetch = 0

\* C26 (no lost update): for every matching notification received while the
\* hook stays mounted on one project, a fetch initiated at or after the
\* notification is applied eventually, every network call completing; the
\* fetch that was already running when the notification arrived does not count.
NoLostUpdate ==
    \A n \in 1..(MaxFetches + 1) :
        (mounted /\ lastStep.awaited = n) ~> (applied[projectId].seq >= n)

\* the step calls invalidateQueries without having received a message: the
\* handler has run again on the message it had seen before
InvalidatesForRetainedMessage ==
    lastStep'.invalidated # NoCall /\ lastStep'.received = NoMessage

\* C27: each received notification triggers the refresh at most once: when
\* the handler is evaluated again without a new message (projectId changing
\* away and back, say), it does not invalidate the query again for the
\* lastJsonMessage it has retained.
TriggersAtMostOnce == [][InvalidatesForRetainedMessage => ~triggered]_vars

\* the derived fields of the project shown change only in the step in which
\* the live fetch of that project completes successfully
ChangesOnlyOnSuccess ==
    mounted /\ mounted' /\ projectId' = projectId /\ memo' # memo
    => /\ AppliedSuccess(projectId)
       /\ applied'[projectId].seq = cache[projectId].fetch

\* what is shown is the derivation of the response applied last for the project
ShowsLastApplied ==
    mounted /\ applied[projectId].seq > 0
    => ShowsDerivationOf(Result, applied[projectId].list)

\* C28: while a refresh fetch triggered by a notification is in flight, tasks,
\* tasksById and tasksByStatus stay the derivation of the previous Snapshot:
\* they neither become empty nor change until that fetch completes
\* successfully.
SnapshotKeptDuringRefresh == []ShowsLastApplied /\ [][ChangesOnlyOnSuccess]_vars

\* a notification has started a refetch of the project shown, which is in
\* flight, and the tasks fetched before are still shown
PreviousSnapshotShownDuringRefresh ==
    /\ mounted
    /\ lastStep.received # NoMessage
    /\ lastStep.invalidated = projectId
    /\ cache[projectId].fetch = started
    /\ \E f \in inFlight : f.pid = projectId /\ f.seq = started /\ f.live
    /\ applied[projectId].seq > 0
    /\ applied[projectId].seq < started
    /\ Result.tasks # <<>>
    /\ ShowsDerivationOf(Result, applied[projectId].list)

\* C29 (group/map consistency): every task held by a group tasksByStatus[s]
\* has status s and is the record tasksById holds for its id; when the fetched
\* list names an id twice, no group holds a record that tasksById has
\* superseded.
GroupsAgreeWithMap ==
    DerivedFromFetch
    => \A pl \in GroupPlaces(Result.tasksByStatus) :
          LET task == Result.tasksByStatus[pl[1]][pl[2]]
          IN  /\ task.status = pl[1]
              /\ task.id \in DOMAIN Result.tasksById
              /\ task = Result.tasksById[task.id]

\* a step after the unmount receives no message, invalidates nothing, starts
\* no fetch and repeats no failed call; the socket stays closed and the hook
\* unmounted
QuietAfterUnmount ==
    ~mounted
    => /\ ~mounted'
       /\ ~wsOpen'
       /\ lastStep'.received = NoMessage
       /\ lastStep'.invalidated = NoCall
       /\ started' = started
       /\ lastStep'.settled.kind # "retried"
       /\ \A f \in inFlight' : f \in inFlight

\* C30: after the unmount no notification triggers a refresh and no fetch is
\* initiated on behalf of the unmounted hook.
NothingStartsAfterUnmount == [](~mounted => ~wsOpen) /\ [][QuietAfterUnmount]_vars

\* the hook was unmounted after it had handled a notification, with a call
\* under way; that call has failed since and was not repeated
CallFailedAfterUnmount ==
    /\ ~mounted
    /\ ~wsOpen
    /\ lastJsonMessage # NoMessage
    /\ lastStep.settled.kind = "failed"
    /\ inFlight = {}

\* C31: in useProjects, computing the sorted `projects` leaves the fetched
\* `data` array unchanged: the array the query cache holds for ['projects']
\* lists the projects in the order in which they were fetched.
ProjectsDataUnchanged ==
    projectsQuery.data.defined => projectsQuery.data.list = projectsFetched

\* no fetch of ['tasks', ''] has ever been initiated, and with projectId empty
\* nothing is shown and error is null
EmptyProjectIdShowsNothing ==
    /\ latest[""].seq = 0
    /\ cache[""].fetch = 0
    /\ \A f \in inFlight : f.pid # ""
    /\ mounted /\ projectId = ""
       => /\ Result.tasks = <<>>
          /\ DOMAIN Result.tasksById = {}
          /\ DOMAIN Result.tasksByStatus = StatusKeys
          /\ \A s \in StatusKeys : Result.tasksByStatus[s] = <<>>
          /\ Result.error = "none"

\* a step with projectId empty starts no fetch and repeats no failed call
EmptyProjectIdStartsNothing ==
    projectId = "" /\ projectId' = ""
    => started' = started /\ lastStep'.settled.kind # "retried"

\* C32: while projectId is empty, useProjectTasks issues no fetch and no
\* notification triggers one; tasks, tasksById and the five groups stay empty
\* and error stays null.
EmptyProjectIdNeverFetches ==
    []EmptyProjectIdShowsNothing /\ [][EmptyProjectIdStartsNothing]_vars

\* with projectId empty, a task_updated notification whose project_id is
\* empty too has been handled: the handler invalidated ['tasks', ''], no fetch
\* was started and nothing is shown
EmptyProjectIdNotified ==
    /\ mounted
    /\ projectId = ""
    /\ lastStep.received.type = "task_updated"
    /\ lastStep.received.project_id = ""
    /\ lastStep.invalidated = ""
    /\ started = 0
    /\ inFlight = {}
    /\ Result.tasks = <<>>

=============================================================================
